---- MODULE Spec2Model ----
(***************************************************************************)
(* The CRM cadence engine of BotOracle: the task store (admin_tasks), the  *)
(* user store (users), the CadenceManager, the daily planner, the          *)
(* dispatcher and the reschedule-on-reply hook.                            *)
(*                                                                         *)
(* Time is counted in minutes since 00:00 of day 0 (timezone-naive, as in  *)
(* the store).  Every coroutine is cut at its awaits: one action is one    *)
(* store statement or one collaborator call together with the local code   *)
(* that follows it up to the next await.  A store statement or a           *)
(* collaborator call may raise; the action then follows the handler the    *)
(* code has for it.                                                        *)
(***************************************************************************)
EXTENDS Integers, Sequences, FiniteSets, TLC

\* ------------------------------------------------------------------ bounds
MaxTasks == 2
MaxAttempts == 2
MaxPlanTasks == 4

\* --------------------------------------------------------------- constants
Users == {1}
Dispatchers == {1, 2}
NULL == -1

ProactiveTypes == {"PING", "NUDGE_SUB", "DAILY_MSG_PROMPT", "RECOVERY", "LIMIT_INFO"}
DailyTypes == {"DAILY_MSG_PROMPT", "DAILY_MSG_PUSH"}
UncountedTypes == {"THANKS", "REACT"}
PendingStatuses == {"scheduled", "due"}
SentStatuses == {"sent", "replied"}
TerminalStatuses == {"sent", "failed", "cancelled"}

Hours(h) == h * 60
Days(d) == d * 24 * 60
DateOf(t) == t \div (24 * 60)
\* timedelta.days of the non-negative difference a - b
DaysBetween(a, b) == (a - b) \div (24 * 60)

Min(a, b) == IF a <= b THEN a ELSE b
Max(a, b) == IF a >= b THEN a ELSE b
Range(s) == {s[i] : i \in DOMAIN s}

VARIABLES
    now,        \* the wall clock
    store_up,   \* whether the store answers; a statement raises while it is down
    users,      \* the users table (with the rows other tables hold per user), by id
    prefs,      \* the user_prefs and contact_cadence rows, by user id
    tasks,      \* the admin_tasks table; a task's id is its index
    attempts,   \* per task, the number of bot.send_message calls made for it
    disp,       \* per dispatch_due_tasks invocation, its locals
    plan,       \* the locals of the plan_for_user call in flight
    cad         \* the locals of the CadenceManager call in flight

vars == <<now, store_up, users, prefs, tasks, attempts, disp, plan, cad>>

\* ------------------------------------------------------------- task store
TaskIds == DOMAIN tasks

\* INSERT INTO admin_tasks (user_id, type, due_at, payload, created_at):
\* status takes the column default, sent_at and result_code are NULL.
NewTask(user_id, task_type, due_at) ==
    [user_id |-> user_id, type |-> task_type, status |-> "scheduled",
     due_at |-> due_at, sent_at |-> NULL, result_code |-> "null"]

mark_sent(tbl, task_id) ==
    [tbl EXCEPT ![task_id].status = "sent", ![task_id].sent_at = now]

\* The UPDATE that records the code and leaves the status as it is.
MarkFailedKeepsStatus(tbl, task_id, error_code) ==
    [tbl EXCEPT ![task_id].result_code = error_code]

mark_failed(tbl, task_id, error_code) ==
    [tbl EXCEPT ![task_id].status = "failed", ![task_id].result_code = error_code]

set_blocked(tbl, user_id) ==
    [tbl EXCEPT ![user_id].is_blocked = TRUE, ![user_id].blocked_at = now]

\* The WHERE clause without its condition on the status.
IsDueAnyStatus(t) ==
    /\ tasks[t].due_at # NULL
    /\ tasks[t].due_at <= now
    /\ ~users[tasks[t].user_id].is_blocked

\* The WHERE clause with a strict comparison of due_at.
IsDueStrict(t) ==
    /\ tasks[t].status \in PendingStatuses
    /\ tasks[t].due_at # NULL
    /\ tasks[t].due_at < now
    /\ ~users[tasks[t].user_id].is_blocked

\* The WHERE clause without its condition on the blocked flag.
IsDueBlockedToo(t) ==
    /\ tasks[t].status \in PendingStatuses
    /\ tasks[t].due_at # NULL
    /\ tasks[t].due_at <= now

\* WHERE t.status IN ('scheduled','due') AND t.due_at <= now() AND u.is_blocked = false
IsDue(t) ==
    /\ tasks[t].status \in PendingStatuses
    /\ tasks[t].due_at # NULL
    /\ tasks[t].due_at <= now
    /\ ~users[tasks[t].user_id].is_blocked

RECURSIVE AnyBatches(_, _)
\* LIMIT k with no ORDER BY: any k of the rows, in any order.
AnyBatches(S, k) ==
    IF k = 0 \/ S = {} THEN {<<>>}
    ELSE UNION {{<<t>> \o rest : rest \in AnyBatches(S \ {t}, k - 1)} : t \in S}

RECURSIVE OrderedBatches(_, _)
\* ORDER BY t.due_at LIMIT k: the rows in non-decreasing due_at order; the
\* order among equal due_at is not determined by the statement.
OrderedBatches(S, k) ==
    IF k = 0 \/ S = {} THEN {<<>>}
    ELSE LET m == CHOOSE x \in {tasks[t].due_at : t \in S} :
                     \A t \in S : x <= tasks[t].due_at
             firsts == {t \in S : tasks[t].due_at = m}
         IN UNION {{<<t>> \o rest : rest \in OrderedBatches(S \ {t}, k - 1)} : t \in firsts}

get_due_tasks(limit) == OrderedBatches({t \in TaskIds : IsDue(t)}, limit)

\* SELECT COUNT(*) ... status IN ('sent','replied') AND sent_at::date = CURRENT_DATE
\* AND type NOT IN ('THANKS','REACT')
count_user_contacts_today(user_id) ==
    Cardinality({t \in TaskIds :
        /\ tasks[t].user_id = user_id
        /\ tasks[t].status \in SentStatuses
        /\ tasks[t].sent_at # NULL
        /\ DateOf(tasks[t].sent_at) = DateOf(now)
        /\ tasks[t].type \notin UncountedTypes})

\* The WHERE clause without its lower bound on due_at.
RescheduleMatchesPastDue(t, user_id, task_types, hours_ahead) ==
    /\ tasks[t].user_id = user_id
    /\ tasks[t].type \in task_types
    /\ tasks[t].status \in PendingStatuses
    /\ tasks[t].due_at # NULL
    /\ tasks[t].due_at <= now + Hours(hours_ahead)

\* The WHERE clause of the UPDATE of reschedule_upcoming_tasks.
RescheduleMatches(t, user_id, task_types, hours_ahead) ==
    /\ tasks[t].user_id = user_id
    /\ tasks[t].type \in task_types
    /\ tasks[t].status \in PendingStatuses
    /\ tasks[t].due_at # NULL
    /\ tasks[t].due_at > now
    /\ tasks[t].due_at <= now + Hours(hours_ahead)

\* reschedule_upcoming_tasks: postpone_on_reply (24 when unset) hours from now.
reschedule_upcoming_tasks(user_id, task_types, hours_ahead) ==
    LET postpone_hours == IF prefs[user_id].postpone_on_reply = NULL
                             \/ prefs[user_id].postpone_on_reply = 0
                          THEN 24 ELSE prefs[user_id].postpone_on_reply
    IN [t \in TaskIds |->
          IF RescheduleMatches(t, user_id, task_types, hours_ahead)
          THEN [tasks[t] EXCEPT !.due_at = now + Hours(postpone_hours)]
          ELSE tasks[t]]

\* ----------------------------------------------------------------- planner
\* priority_weights of _select_tasks; an unlisted type weighs 1.
PriorityWeight(task_type) ==
    CASE task_type = "DAILY_MSG_PROMPT" -> 3
      [] task_type = "RECOVERY" -> 3
      [] task_type = "LIMIT_INFO" -> 2
      [] task_type = "PING" -> 2
      [] OTHER -> 1

RECURSIVE Repeat(_, _)
Repeat(x, n) == IF n = 0 THEN <<>> ELSE <<x>> \o Repeat(x, n - 1)

RECURSIVE WeightedCandidates(_)
\* weighted_candidates: every candidate repeated weight times.
WeightedCandidates(candidates) ==
    IF candidates = <<>> THEN <<>>
    ELSE Repeat(Head(candidates), PriorityWeight(Head(candidates)))
         \o WeightedCandidates(Tail(candidates))

Without(s, x) == SelectSeq(s, LAMBDA y : y # x)

RECURSIVE SelectLoop(_, _, _)
\* The drawing loop of _select_tasks with n iterations left: every list it can
\* return, one per sequence of random.choice results.
SelectLoop(available, selected, n) ==
    IF n = 0 \/ available = <<>> THEN {selected}
    ELSE UNION {SelectLoop(Without(available, available[i]),
                           IF available[i] \in Range(selected) THEN selected
                           ELSE Append(selected, available[i]),
                           n - 1) : i \in DOMAIN available}

\* The drawing loop run once per distinct candidate, whatever max_tasks is.
SelectAllCandidates(candidates, max_tasks) ==
    IF candidates = <<>> THEN {<<>>}
    ELSE SelectLoop(WeightedCandidates(candidates), <<>>, Cardinality(Range(candidates)))

\* _select_tasks(candidates, max_tasks): the set of lists it can return.
select_tasks(candidates, max_tasks) ==
    IF candidates = <<>> THEN {<<>>}
    ELSE SelectLoop(WeightedCandidates(candidates), <<>>,
                    Min(max_tasks, Cardinality(Range(candidates))))

\* _get_last_task_time: MAX(sent_at) over the user's sent tasks of the type.
SentTimes(user_id, task_type) ==
    {tasks[t].sent_at : t \in {x \in TaskIds :
        /\ tasks[x].user_id = user_id
        /\ tasks[x].type = task_type
        /\ tasks[x].status \in SentStatuses
        /\ tasks[x].sent_at # NULL}}

get_last_task_time(user_id, task_type) ==
    IF SentTimes(user_id, task_type) = {} THEN NULL
    ELSE CHOOSE m \in SentTimes(user_id, task_type) :
             \A x \in SentTimes(user_id, task_type) : x <= m

\* The default of the limit parameter of dispatch_due_tasks.
DefaultLimit == 100

NUDGE_MIN_HOURS == 48
NUDGE_MAX_PER_WEEK == 2

\* The weekly count alone, without the test on the last nudge.
CanNudgeByWeeklyCount(user_id) ==
    Cardinality({t \in TaskIds :
        /\ tasks[t].user_id = user_id
        /\ tasks[t].type = "NUDGE_SUB"
        /\ tasks[t].status \in SentStatuses
        /\ tasks[t].sent_at # NULL
        /\ tasks[t].sent_at > now - Days(7)}) < NUDGE_MAX_PER_WEEK

\* _can_nudge_subscription
can_nudge_subscription(user_id) ==
    LET last_nudge == get_last_task_time(user_id, "NUDGE_SUB")
        nudges_this_week == Cardinality({t \in TaskIds :
            /\ tasks[t].user_id = user_id
            /\ tasks[t].type = "NUDGE_SUB"
            /\ tasks[t].status \in SentStatuses
            /\ tasks[t].sent_at # NULL
            /\ tasks[t].sent_at > now - Days(7)})
    IN IF last_nudge # NULL /\ now - last_nudge < Hours(NUDGE_MIN_HOURS) THEN FALSE
       ELSE nudges_this_week < NUDGE_MAX_PER_WEEK

\* _get_candidate_tasks: the candidate list, in the order the code appends.
get_candidate_tasks(user_id) ==
    LET u == users[user_id]
        last_ping == get_last_task_time(user_id, "PING")
    IN (IF ~u.daily_sent_today THEN <<"DAILY_MSG_PROMPT">> ELSE <<>>)
       \o (IF last_ping = NULL
              \/ DaysBetween(now, last_ping) >= prefs[user_id].days_between_pings
           THEN <<"PING">> ELSE <<>>)
       \o (IF ~u.has_subscription /\ can_nudge_subscription(user_id)
           THEN <<"NUDGE_SUB">> ELSE <<>>)
       \o (IF u.last_seen_at # NULL /\ DaysBetween(now, u.last_seen_at) >= 3
           THEN <<"RECOVERY">> ELSE <<>>)
       \o (IF 0 < u.free_questions_left /\ u.free_questions_left <= 2
              /\ ~u.has_subscription
           THEN <<"LIMIT_INFO">> ELSE <<>>)

\* The time of day h:m in minutes.
Clock(h, m) == h * 60 + m

\* _calculate_due_time for one outcome of its random draws: the window chosen,
\* the hour and minute inside it, and the jitter.
calculate_due_time(user_id, draw) ==
    LET window == prefs[user_id].prefers_windows[draw.window]
        hour == window[1] + draw.hour_offset
        t == Clock(hour, draw.minute)
        quiet_start == prefs[user_id].quiet_start
        quiet_end == prefs[user_id].quiet_end
        today == Days(DateOf(now))
        due_time == IF quiet_start <= t \/ t <= quiet_end
                    THEN today + Clock(9, 15)
                    ELSE today + t
    IN due_time + draw.jitter

\* The outcomes of the random draws of _calculate_due_time that the planner is
\* run with: a morning slot with a late jitter, an evening slot with an early one.
DueDraws == {[window |-> 1, hour_offset |-> 0, minute |-> 0, jitter |-> 15],
             [window |-> 3, hour_offset |-> 3, minute |-> 59, jitter |-> -15]}

\* window_weights of _calculate_due_time, in tenths.
WindowWeights == <<4, 3, 3>>

\* random.choices raises ValueError when the number of weights differs from the
\* number of windows it chooses from.
ChoicesRaises(user_id) ==
    Len(prefs[user_id].prefers_windows) # Len(WindowWeights)

\* stats of plan_all_users.
ZeroPlanStats == [total_users |-> 0, total_tasks |-> 0, users_with_tasks |-> 0]

\* The locals of plan_for_user and, while plan_all_users runs its loop
\* (in_all), the users it has still to plan and its stats.
IdlePlan == [pc |-> "idle", user |-> 0, remaining_slots |-> 0, candidates |-> <<>>,
             selected |-> <<>>, tasks_created |-> 0, new_ids |-> {},
             in_all |-> FALSE, queue |-> <<>>, stats |-> ZeroPlanStats]

\* plan_for_user without its handler: the exception leaves it and reaches the
\* handler of plan_all_users, which ends the loop.
PlanFailedUnhandled(p) == [p EXCEPT !.pc = "all_return"]

\* The handler of plan_for_user: any exception is logged and 0 is returned.
PlanFailed(p) == [p EXCEPT !.pc = "return", !.tasks_created = 0]

\* Every user, blocked or not.
EveryUser == Users

\* The SELECT of plan_all_users: the users with is_blocked = false (every user
\* here has the age and the gender it also asks for).
PlannableUsers == {u \in DOMAIN users : ~users[u].is_blocked}

\* plan_for_user up to its creation loop: the preferences, the contacts counted
\* today, the candidates and the selection; the locals it can reach.  The
\* candidates are kept in the locals on every path that has read the budget;
\* the code reads them only when a slot remains.  `cap` bounds the rows of the
\* table.
PlanLocals(u, cap) ==
    IF ~store_up
    THEN {PlanFailed([IdlePlan EXCEPT !.user = u])}
    ELSE IF ~prefs[u].allow_proactive
    THEN {[IdlePlan EXCEPT !.pc = "return", !.user = u]}
    ELSE LET contacts_today == count_user_contacts_today(u)
             remaining_slots == Max(0, prefs[u].max_contacts_per_day - contacts_today)
             candidates == get_candidate_tasks(u)
         IN IF remaining_slots = 0
            THEN {[IdlePlan EXCEPT !.pc = "return", !.user = u,
                                   !.candidates = candidates]}
            ELSE {[IdlePlan EXCEPT
                      !.pc = IF selected = <<>> THEN "return" ELSE "create",
                      !.user = u, !.remaining_slots = remaining_slots,
                      !.candidates = candidates, !.selected = selected] :
                  selected \in {x \in select_tasks(candidates, remaining_slots) :
                                  Len(tasks) + Len(x) <= cap}}

\* plan_for_user called for one of the users that are not blocked, as
\* plan_all_users calls it.
PlanForUser(u, cap) ==
    /\ plan.pc = "idle"
    /\ u \in PlannableUsers
    /\ \E p \in PlanLocals(u, cap) : plan' = p
    /\ UNCHANGED <<now, store_up, users, prefs, tasks, attempts, disp, cad>>

\* One turn of the creation loop: _calculate_due_time, with its random draws
\* taken from `draws`, and create_task.  A store failure, or the ValueError of
\* random.choices, leaves plan_for_user through its handler, which returns 0.
PlanCreateWith(draws) ==
    /\ plan.pc = "create"
    /\ LET k == Cardinality(plan.new_ids) + 1
       IN IF ~store_up \/ ChoicesRaises(plan.user)
          THEN /\ plan' = PlanFailed(plan)
               /\ UNCHANGED <<tasks, attempts>>
          ELSE \E draw \in draws :
                  /\ tasks' = Append(tasks, NewTask(plan.user, plan.selected[k],
                                                    calculate_due_time(plan.user, draw)))
                  /\ attempts' = Append(attempts, 0)
                  /\ plan' = [plan EXCEPT
                        !.tasks_created = @ + 1,
                        !.new_ids = @ \cup {Len(tasks) + 1},
                        !.pc = IF k = Len(plan.selected) THEN "return" ELSE "create"]
    /\ UNCHANGED <<now, store_up, users, prefs, disp, cad>>

PlanCreate == PlanCreateWith(DueDraws)

\* The outcomes of the random draws at the edges of their ranges: any window,
\* its first or its last hour, minute 0 or 59, the jitter at either end.
EdgeDraws(user_id) ==
    UNION {{[window |-> w, hour_offset |-> h, minute |-> m, jitter |-> j] :
               h \in {0, prefs[user_id].prefers_windows[w][2]
                            - prefs[user_id].prefers_windows[w][1] - 1},
               m \in {0, 59}, j \in {-15, 15}} :
           w \in DOMAIN prefs[user_id].prefers_windows}

\* plan_all_users when its SELECT gives no user: it returns with nothing planned.
PlanNoUsers ==
    /\ plan.pc = "idle"
    /\ PlannableUsers = {}
    /\ plan' = [IdlePlan EXCEPT !.pc = "return"]
    /\ UNCHANGED <<now, store_up, users, prefs, tasks, attempts, disp, cad>>

\* The orders in which a SELECT without ORDER BY can give the rows of S.
Orders(S) == {o \in [1..Cardinality(S) -> S] : Range(o) = S}

\* plan_all_users: the SELECT of the users to plan, or its failure, which the
\* handler of plan_all_users turns into the zero stats.
PlanAllUsers ==
    /\ plan.pc = "idle"
    /\ IF store_up
       THEN \E o \in Orders(PlannableUsers) :
               plan' = [IdlePlan EXCEPT
                          !.pc = "loop", !.in_all = TRUE, !.queue = o,
                          !.stats = [ZeroPlanStats EXCEPT !.total_users = Len(o)]]
       ELSE plan' = [IdlePlan EXCEPT !.pc = "all_return", !.in_all = TRUE]
    /\ UNCHANGED <<now, store_up, users, prefs, tasks, attempts, disp, cad>>

\* The loop of plan_all_users: plan_for_user for the next user, or the end.
PlanAllNext(cap) ==
    /\ plan.pc = "loop"
    /\ IF plan.queue = <<>>
       THEN plan' = [plan EXCEPT !.pc = "all_return"]
       ELSE \E p \in PlanLocals(Head(plan.queue), cap) :
               plan' = [p EXCEPT !.in_all = TRUE, !.queue = plan.queue,
                                 !.stats = plan.stats]
    /\ UNCHANGED <<now, store_up, users, prefs, tasks, attempts, disp, cad>>

\* plan_all_users returns its stats.
PlanAllReturn ==
    /\ plan.pc = "all_return"
    /\ plan' = IdlePlan
    /\ UNCHANGED <<now, store_up, users, prefs, tasks, attempts, disp, cad>>

\* plan_for_user returns tasks_created; inside plan_all_users the stats take
\* it and the loop goes on.
PlanReturn ==
    /\ plan.pc = "return"
    /\ plan' = IF plan.in_all
               THEN [IdlePlan EXCEPT
                       !.pc = "loop", !.in_all = TRUE, !.queue = Tail(plan.queue),
                       !.stats = [plan.stats EXCEPT
                          !.total_tasks = @ + plan.tasks_created,
                          !.users_with_tasks =
                              @ + (IF plan.tasks_created > 0 THEN 1 ELSE 0)]]
               ELSE IdlePlan
    /\ UNCHANGED <<now, store_up, users, prefs, tasks, attempts, disp, cad>>

\* --------------------------------------------------------- reschedule hook
\* The message handler after it has answered: the THANKS task with no due time
\* and reschedule_upcoming_tasks for PING and NUDGE_SUB.
UserMessage(u) ==
    /\ store_up
    /\ Len(tasks) < MaxTasks
    /\ LET rescheduled == reschedule_upcoming_tasks(u, {"PING", "NUDGE_SUB"}, 48)
       IN tasks' = [t \in 1..(Len(tasks) + 1) |->
                       IF t <= Len(tasks) THEN rescheduled[t]
                       ELSE NewTask(u, "THANKS", NULL)]
    /\ attempts' = Append(attempts, 0)
    /\ UNCHANGED <<now, store_up, users, prefs, disp, plan, cad>>

\* AdminTaskModel.reschedule_upcoming_tasks called on its own with the types
\* the message handler passes and a horizon of hours_ahead hours.
RescheduleWithin(u, hours_ahead) ==
    /\ store_up
    /\ tasks' = reschedule_upcoming_tasks(u, {"PING", "NUDGE_SUB"}, hours_ahead)
    /\ tasks' # tasks
    /\ UNCHANGED <<now, store_up, users, prefs, attempts, disp, plan, cad>>

\* The call with the default horizon, as the message handler makes it.
RescheduleUpcoming(u) == RescheduleWithin(u, 48)

\* -------------------------------------------------------------- dispatcher
ZeroStats == [sent |-> 0, failed |-> 0, blocked |-> 0]

IdleDisp == [pc |-> "idle", limit |-> 0, batch |-> <<>>, i |-> 0,
             stats |-> ZeroStats, text |-> "none", code |-> "null",
             send_error |-> "none"]

CurTask(d) == disp[d].batch[disp[d].i]

\* Every delivery error taken for a block.
IsAnyError(kind) == kind # "none"

\* The keyword test of _process_task on the text of the caught exception:
\* 'blocked', 'forbidden' or 'deactivated' occurs in it.
IsBlockedError(kind) == kind = "blocked_keyword"

\* _process_task returns `result`: stats[result] += 1 and the loop goes on to the
\* next task of the batch, or dispatch_due_tasks comes to its return.
Returned(d, result) ==
    LET more == disp[d].i < Len(disp[d].batch)
    IN disp' = [disp EXCEPT ![d] =
                  [@ EXCEPT !.stats = [@ EXCEPT ![result] = @ + 1],
                            !.text = "none", !.code = "null",
                            !.send_error = "none",
                            !.i = IF more THEN @ + 1 ELSE @,
                            !.pc = IF more THEN "message" ELSE "return"]]

\* An exception caught by the inner handler of _process_task (lines 81-94).
Caught(d, kind) ==
    disp' = [disp EXCEPT ![d].pc = IF IsBlockedError(kind) THEN "set_blocked"
                                    ELSE "mark_failed",
                         ![d].code = IF IsBlockedError(kind) THEN "blocked"
                                     ELSE "send_error"]

\* dispatch_due_tasks: the SELECT of get_due_tasks, or its failure, which the
\* handler of dispatch_due_tasks turns into the zero stats.
DispatchStart(d, limit) ==
    /\ disp[d].pc = "idle"
    /\ IF store_up
       THEN \E b \in get_due_tasks(limit) :
               disp' = [disp EXCEPT ![d] =
                          [IdleDisp EXCEPT !.limit = limit,
                                           !.batch = b,
                                           !.i = IF b = <<>> THEN 0 ELSE 1,
                                           !.pc = IF b = <<>> THEN "return"
                                                  ELSE "message"]]
       ELSE disp' = [disp EXCEPT ![d] = [IdleDisp EXCEPT !.limit = limit,
                                                         !.pc = "return"]]
    /\ UNCHANGED <<now, store_up, users, prefs, tasks, attempts, plan, cad>>

\* What the generator called by _get_task_message does.
GeneratorOutcomes == {"text", "raises"}

\* _get_task_message without its handler: the generator's exception leaves it.
GetTaskMessageUnhandled(outcome) ==
    IF outcome = "raises" THEN "raised" ELSE "generated"

\* _get_task_message: the generated text, or the fallback text its handler
\* returns for any exception of the generator.
get_task_message(outcome) ==
    IF outcome = "raises" THEN "fallback" ELSE "generated"

\* _process_task up to the delivery: persona_factory and _get_task_message.  An
\* exception that left _get_task_message would reach the outer handler.
DispatchGetMessage(d) ==
    /\ disp[d].pc = "message"
    /\ \E outcome \in GeneratorOutcomes :
          LET message_text == get_task_message(outcome)
          IN IF message_text = "raised"
             THEN disp' = [disp EXCEPT ![d].pc = "mark_failed_outer"]
             ELSE disp' = [disp EXCEPT ![d].pc = "send", ![d].text = message_text]
    /\ UNCHANGED <<now, store_up, users, prefs, tasks, attempts, plan, cad>>

\* bot.send_message with the message text, which delivers or raises.
DispatchSend(d) ==
    /\ disp[d].pc = "send"
    /\ attempts[CurTask(d)] < MaxAttempts
    /\ attempts' = [attempts EXCEPT ![CurTask(d)] = @ + 1]
    /\ \E outcome \in {"delivered", "blocked_keyword", "other"} :
          IF outcome = "delivered"
          THEN disp' = [disp EXCEPT ![d].pc = "mark_sent"]
          ELSE disp' = [disp EXCEPT
                  ![d].send_error = outcome,
                  ![d].pc = IF IsBlockedError(outcome) THEN "set_blocked" ELSE "mark_failed",
                  ![d].code = IF IsBlockedError(outcome) THEN "blocked" ELSE "send_error"]
    /\ UNCHANGED <<now, store_up, users, prefs, tasks, plan, cad>>

\* AdminTaskModel.mark_sent after a delivery; then, for a task that is not a
\* daily message, return 'sent'.
DispatchMarkSent(d) ==
    /\ disp[d].pc = "mark_sent"
    /\ IF store_up
       THEN /\ tasks' = mark_sent(tasks, CurTask(d))
            /\ IF tasks[CurTask(d)].type \in DailyTypes
               THEN disp' = [disp EXCEPT ![d].pc = "start_session"]
               ELSE Returned(d, "sent")
       ELSE /\ UNCHANGED tasks
            /\ Caught(d, "other")
    /\ UNCHANGED <<now, store_up, users, prefs, attempts, plan, cad>>

\* EngagementManager.start_session, inside the same try block as the delivery.
DispatchStartSession(d) ==
    /\ disp[d].pc = "start_session"
    /\ IF store_up THEN Returned(d, "sent") ELSE Caught(d, "other")
    /\ UNCHANGED <<now, store_up, users, prefs, tasks, attempts, plan, cad>>

\* UserModel.set_blocked in the inner handler; its failure reaches the outer
\* handler of _process_task.
DispatchSetBlocked(d) ==
    /\ disp[d].pc = "set_blocked"
    /\ IF store_up
       THEN /\ users' = set_blocked(users, tasks[CurTask(d)].user_id)
            /\ disp' = [disp EXCEPT ![d].pc = "mark_failed"]
       ELSE /\ UNCHANGED users
            /\ disp' = [disp EXCEPT ![d].pc = "mark_failed_outer"]
    /\ UNCHANGED <<now, store_up, prefs, tasks, attempts, plan, cad>>

\* AdminTaskModel.mark_failed in the inner handler (lines 86 and 92).
DispatchMarkFailed(d) ==
    /\ disp[d].pc = "mark_failed"
    /\ IF store_up
       THEN /\ tasks' = mark_failed(tasks, CurTask(d), disp[d].code)
            /\ Returned(d, IF disp[d].code = "blocked" THEN "blocked" ELSE "failed")
       ELSE /\ UNCHANGED tasks
            /\ disp' = [disp EXCEPT ![d].pc = "mark_failed_outer"]
    /\ UNCHANGED <<now, store_up, users, prefs, attempts, plan, cad>>

\* AdminTaskModel.mark_failed in the outer handler (line 99); its failure leaves
\* _process_task and ends the loop of dispatch_due_tasks.
DispatchMarkFailedOuter(d) ==
    /\ disp[d].pc = "mark_failed_outer"
    /\ IF store_up
       THEN /\ tasks' = mark_failed(tasks, CurTask(d), "process_error")
            /\ Returned(d, "failed")
       ELSE /\ UNCHANGED tasks
            /\ disp' = [disp EXCEPT ![d].pc = "return", ![d].text = "none",
                                    ![d].code = "null", ![d].send_error = "none"]
    /\ UNCHANGED <<now, store_up, users, prefs, attempts, plan, cad>>

\* The reaction types create_immediate_reaction is called with.
ReactionTypes == {"THANKS", "REACT"}

\* create_immediate_reaction: create_task with due_at = datetime.now(); a
\* failure of the store is logged and nothing is created.  `cap` bounds the
\* rows of the table.
CreateImmediateReaction(u, reaction_type, cap) ==
    /\ store_up
    /\ Len(tasks) < cap
    /\ tasks' = Append(tasks, NewTask(u, reaction_type, now))
    /\ attempts' = Append(attempts, 0)
    /\ UNCHANGED <<now, store_up, users, prefs, disp, plan, cad>>

\* dispatch_due_tasks returns its stats.
DispatchReturn(d) ==
    /\ disp[d].pc = "return"
    /\ disp' = [disp EXCEPT ![d] = IdleDisp]
    /\ UNCHANGED <<now, store_up, users, prefs, tasks, attempts, plan, cad>>

\* ---------------------------------------------------------- CadenceManager
\* The rows is_response_to_crm selects from: the user's tasks of the proactive
\* types with status 'sent'.
SentContacts(user_id) ==
    {t \in TaskIds : /\ tasks[t].user_id = user_id
                      /\ tasks[t].status = "sent"
                      /\ tasks[t].type \in ProactiveTypes}

\* The test with a strict comparison: exactly 48 hours is too late.
IsResponseBefore48h(user_id) ==
    /\ SentContacts(user_id) # {}
    /\ \A t \in SentContacts(user_id) : tasks[t].sent_at # NULL
    /\ \E t \in SentContacts(user_id) : now - tasks[t].sent_at < Hours(48)

\* is_response_to_crm: the latest of those rows (ORDER BY sent_at DESC LIMIT 1,
\* which puts a NULL sent_at first) was sent at most 48 hours ago.
is_response_to_crm(user_id) ==
    IF SentContacts(user_id) = {} THEN FALSE
    ELSE IF \E t \in SentContacts(user_id) : tasks[t].sent_at = NULL THEN FALSE
    ELSE LET last == CHOOSE t \in SentContacts(user_id) :
                        \A x \in SentContacts(user_id) : tasks[x].sent_at <= tasks[t].sent_at
         IN now - tasks[last].sent_at <= Hours(48)

IdleCad == [pc |-> "idle", user |-> 0, reason |-> "null", old_level |-> 0, new_level |-> 0,
            event |-> "none", answer |-> "none"]

\* is_response_to_crm called: its SELECT and the boolean it returns.
IsResponseToCrm(u) ==
    /\ cad.pc = "idle"
    /\ store_up
    /\ cad' = [IdleCad EXCEPT !.pc = "irc_return", !.user = u,
                             !.answer = IF is_response_to_crm(u) THEN "true"
                                        ELSE "false"]
    /\ UNCHANGED <<now, store_up, users, prefs, tasks, attempts, disp, plan>>

IsResponseReturn ==
    /\ cad.pc = "irc_return"
    /\ cad' = IdleCad
    /\ UNCHANGED <<now, store_up, users, prefs, tasks, attempts, disp, plan>>

StopReasons == {"no_response_14d", "user_request"}

\* The level computed with strict comparisons.
ComputeLevelStrict(last_response) ==
    IF last_response = NULL THEN 1
    ELSE IF DaysBetween(now, last_response) > 14 THEN 3
    ELSE IF DaysBetween(now, last_response) > 2 THEN 2
    ELSE 1

\* The level update_cadence_level computes from last_crm_response_at.
ComputeLevel(last_response) ==
    IF last_response = NULL THEN 1
    ELSE IF DaysBetween(now, last_response) >= 14 THEN 3
    ELSE IF DaysBetween(now, last_response) >= 2 THEN 2
    ELSE 1

\* The UPDATE without its condition on the type.
CancelPendingAnyType(tbl, user_id, types) ==
    [t \in DOMAIN tbl |->
        IF tbl[t].user_id = user_id /\ tbl[t].status \in PendingStatuses
        THEN [tbl[t] EXCEPT !.status = "cancelled"]
        ELSE tbl[t]]

\* The UPDATE without its condition on the user.
CancelPendingAnyUser(tbl, user_id, types) ==
    [t \in DOMAIN tbl |->
        IF tbl[t].status \in PendingStatuses /\ tbl[t].type \in types
        THEN [tbl[t] EXCEPT !.status = "cancelled"]
        ELSE tbl[t]]

\* The cancelling UPDATE on admin_tasks of stop_cadence and of
\* track_crm_response, each with its types.
CancelPending(tbl, user_id, types) ==
    [t \in DOMAIN tbl |->
        IF tbl[t].user_id = user_id /\ tbl[t].status \in PendingStatuses
           /\ tbl[t].type \in types
        THEN [tbl[t] EXCEPT !.status = "cancelled"]
        ELSE tbl[t]]

\* update_cadence_level: the SELECT of the user row and the level computed from
\* it; when the level is unchanged the call goes to its return.
UpdateLevelRead(u) ==
    /\ cad.pc = "idle"
    /\ store_up
    /\ LET old_level == users[u].crm_cadence_level
           new_level == ComputeLevel(users[u].last_crm_response_at)
       IN cad' = [IdleCad EXCEPT
                    !.pc = IF new_level # old_level THEN "ul_write" ELSE "ul_return",
                    !.user = u, !.old_level = old_level, !.new_level = new_level]
    /\ UNCHANGED <<now, store_up, users, prefs, tasks, attempts, disp, plan>>

\* update_cadence_level: UPDATE users SET crm_cadence_level.
UpdateLevelWrite ==
    /\ cad.pc = "ul_write"
    /\ IF store_up
       THEN /\ users' = [users EXCEPT ![cad.user].crm_cadence_level = cad.new_level]
            /\ cad' = [cad EXCEPT !.pc = "ul_log"]
       ELSE /\ UNCHANGED users
            /\ cad' = IdleCad
    /\ UNCHANGED <<now, store_up, prefs, tasks, attempts, disp, plan>>

\* stop_cadence invoked after every change of the level.
EntersStopOnAnyChange(old_level, new_level) == new_level # old_level

\* The test of line 749: the user newly enters level 3.
EntersStop(old_level, new_level) == new_level = 3 /\ old_level < 3

\* update_cadence_level: the audit event, then stop_cadence when the user newly
\* enters level 3, else the return.
UpdateLevelLog ==
    /\ cad.pc = "ul_log"
    /\ IF ~store_up
       THEN cad' = IdleCad
       ELSE IF EntersStop(cad.old_level, cad.new_level)
       THEN cad' = [cad EXCEPT !.pc = "sc_update", !.reason = "no_response_14d"]
       ELSE cad' = [cad EXCEPT !.pc = "ul_return"]
    /\ UNCHANGED <<now, store_up, users, prefs, tasks, attempts, disp, plan>>

\* update_cadence_level returns new_level.
UpdateLevelReturn ==
    /\ cad.pc = "ul_return"
    /\ cad' = IdleCad
    /\ UNCHANGED <<now, store_up, users, prefs, tasks, attempts, disp, plan>>

\* stop_cadence called on its own: its first statement is StopUpdate.
StopCadence(u, reason) ==
    /\ cad.pc = "idle"
    /\ cad' = [IdleCad EXCEPT !.pc = "sc_update", !.user = u, !.reason = reason]
    /\ UNCHANGED <<now, store_up, users, prefs, tasks, attempts, disp, plan>>

\* stop_cadence: UPDATE users SET crm_cadence_level = 3, crm_stopped_reason.
StopUpdate ==
    /\ cad.pc = "sc_update"
    /\ IF store_up
       THEN /\ users' = [users EXCEPT ![cad.user].crm_cadence_level = 3,
                                      ![cad.user].crm_stopped_reason = cad.reason]
            /\ cad' = [cad EXCEPT !.pc = "sc_cancel"]
       ELSE /\ UNCHANGED users
            /\ cad' = IdleCad
    /\ UNCHANGED <<now, store_up, prefs, tasks, attempts, disp, plan>>

\* stop_cadence: cancel the pending tasks of the proactive types.
StopCancel ==
    /\ cad.pc = "sc_cancel"
    /\ IF store_up
       THEN /\ tasks' = CancelPending(tasks, cad.user, ProactiveTypes)
            /\ cad' = [cad EXCEPT !.pc = "sc_farewell"]
       ELSE /\ UNCHANGED tasks
            /\ cad' = IdleCad
    /\ UNCHANGED <<now, store_up, users, prefs, attempts, disp, plan>>

\* stop_cadence: create the FAREWELL task, due in one hour.  `cap` bounds the
\* rows of the table.
StopFarewell(cap) ==
    /\ cad.pc = "sc_farewell"
    /\ IF store_up
       THEN /\ Len(tasks) < cap
            /\ tasks' = Append(tasks, NewTask(cad.user, "FAREWELL", now + Hours(1)))
            /\ attempts' = Append(attempts, 0)
            /\ cad' = [cad EXCEPT !.pc = "sc_log"]
       ELSE /\ UNCHANGED <<tasks, attempts>>
            /\ cad' = IdleCad
    /\ UNCHANGED <<now, store_up, users, prefs, disp, plan>>

\* stop_cadence: the audit events of create_task and of the stop; the call returns.
StopLog ==
    /\ cad.pc = "sc_log"
    /\ cad' = IdleCad
    /\ UNCHANGED <<now, store_up, users, prefs, tasks, attempts, disp, plan>>

\* track_crm_response: the SELECT of the level before.
TrackResponseRead(u) ==
    /\ cad.pc = "idle"
    /\ store_up
    /\ cad' = [IdleCad EXCEPT !.pc = "tr_update", !.user = u,
                             !.old_level = users[u].crm_cadence_level]
    /\ UNCHANGED <<now, store_up, users, prefs, tasks, attempts, disp, plan>>

\* Every call taken for a restoration.
RestoresAlways(old_level) == old_level >= 1

\* The level before the call asks for a restoration (lines 780 and 793).
Restores(old_level) == old_level > 1

\* The UPDATE that leaves crm_stopped_reason as it is.
RestoreLevelOnly(tbl, user_id) ==
    [tbl EXCEPT ![user_id].last_crm_response_at = now,
                ![user_id].crm_cadence_level = 1]

\* The UPDATE of track_crm_response on the user row.
RestoreUser(tbl, user_id) ==
    [tbl EXCEPT ![user_id].last_crm_response_at = now,
                ![user_id].crm_cadence_level = 1,
                ![user_id].crm_stopped_reason = "null"]

\* track_crm_response: UPDATE users; without a restoration the call returns.
TrackResponseUpdate ==
    /\ cad.pc = "tr_update"
    /\ IF store_up
       THEN /\ users' = RestoreUser(users, cad.user)
            /\ cad' = [cad EXCEPT !.pc = IF Restores(cad.old_level) THEN "tr_cancel"
                                         ELSE "tr_return"]
       ELSE /\ UNCHANGED users
            /\ cad' = IdleCad
    /\ UNCHANGED <<now, store_up, prefs, tasks, attempts, disp, plan>>

\* track_crm_response: cancel the pending FAREWELL tasks.
TrackResponseCancel ==
    /\ cad.pc = "tr_cancel"
    /\ IF store_up
       THEN /\ tasks' = CancelPending(tasks, cad.user, {"FAREWELL"})
            /\ cad' = [cad EXCEPT !.pc = "tr_log"]
       ELSE /\ UNCHANGED tasks
            /\ cad' = IdleCad
    /\ UNCHANGED <<now, store_up, users, prefs, attempts, disp, plan>>

\* track_crm_response: the audit event 'cadence_level_restored'.
TrackResponseLog ==
    /\ cad.pc = "tr_log"
    /\ IF store_up
       THEN cad' = [cad EXCEPT !.pc = "tr_return", !.event = "cadence_level_restored"]
       ELSE cad' = IdleCad
    /\ UNCHANGED <<now, store_up, users, prefs, tasks, attempts, disp, plan>>

\* track_crm_response returns.
TrackResponseReturn ==
    /\ cad.pc = "tr_return"
    /\ cad' = IdleCad
    /\ UNCHANGED <<now, store_up, users, prefs, tasks, attempts, disp, plan>>

\* ------------------------------------------------------- clock and store
\* The clock is looked at at these instants: 06:00 (the planning time) and
\* 18:00 of day 0, 06:00 of day 1.
EngineInstants == {Hours(6), Hours(18), Days(1) + Hours(6)}

\* 06:00 and 18:00 of day 0.
ConcInstants == {Hours(6), Hours(18)}

\* 06:00 of days 0, 2 and 14, and the minute before on days 2 and 14.
CadenceInstants == {Hours(6), Days(2) + Hours(6) - 1, Days(2) + Hours(6),
                    Days(14) + Hours(6) - 1, Days(14) + Hours(6)}

Tick(instants) ==
    /\ \E t \in instants : t > now /\ now' = t
    /\ UNCHANGED <<store_up, users, prefs, tasks, attempts, disp, plan, cad>>

StoreDown ==
    /\ store_up
    /\ store_up' = FALSE
    /\ UNCHANGED <<now, users, prefs, tasks, attempts, disp, plan, cad>>

StoreUp ==
    /\ ~store_up
    /\ store_up' = TRUE
    /\ UNCHANGED <<now, users, prefs, tasks, attempts, disp, plan, cad>>

\* ----------------------------------------------------------- specification
\* A user as get_or_create_user and the onboarding leave it: not blocked, level 1,
\* no subscription, no daily message today, the free questions of config.
InitUser == [is_blocked |-> FALSE, blocked_at |-> NULL, crm_cadence_level |-> 1,
             crm_stopped_reason |-> "null", last_crm_response_at |-> NULL,
             last_seen_at |-> NULL, free_questions_left |-> 5,
             has_subscription |-> FALSE, daily_sent_today |-> FALSE]

\* The rows init_user_preferences creates, with the defaults the planner assumes.
DefaultWindows == <<<<9, 12>>, <<12, 17>>, <<17, 21>>>>

DefaultPrefs(max_contacts) ==
    [allow_proactive |-> TRUE, max_contacts_per_day |-> max_contacts,
     quiet_start |-> Clock(22, 0), quiet_end |-> Clock(8, 0),
     days_between_pings |-> 2, prefers_windows |-> DefaultWindows,
     postpone_on_reply |-> NULL]

MaxContactsChoices == {1, 2}

Init ==
    /\ now = Hours(6)
    /\ store_up = TRUE
    /\ users = [u \in Users |-> InitUser]
    /\ \E m \in MaxContactsChoices : prefs = [u \in Users |-> DefaultPrefs(m)]
    /\ tasks = <<>>
    /\ attempts = <<>>
    /\ disp = [d \in Dispatchers |-> IdleDisp]
    /\ plan = IdlePlan
    /\ cad = IdleCad

\* The dispatcher's steps after the fetch when no store statement raises.
DispatchStep(d) ==
    \/ DispatchGetMessage(d)
    \/ DispatchSend(d)
    \/ DispatchMarkSent(d)
    \/ DispatchStartSession(d)
    \/ DispatchSetBlocked(d)
    \/ DispatchMarkFailed(d)
    \/ DispatchReturn(d)

PlanStep(cap) ==
    \/ \E u \in Users : PlanForUser(u, cap)
    \/ PlanCreate
    \/ PlanReturn

\* The engine with one dispatch_due_tasks invocation at a time and a store that
\* answers: the clock, the planner, the message hook and the dispatcher.
Next ==
    \/ Tick(EngineInstants)
    \/ PlanStep(MaxTasks)
    \/ PlanNoUsers
    \/ \E u \in Users : UserMessage(u)
    \/ \E u \in Users : RescheduleUpcoming(u)
    \/ DispatchStart(1, DefaultLimit)
    \/ DispatchStep(1)

Spec == Init /\ [][Next]_vars

\* The planner and the dispatcher over a store that may go down and come back
\* between any two statements.
NextFaults ==
    \/ Tick(EngineInstants)
    \/ StoreDown
    \/ StoreUp
    \/ PlanStep(MaxTasks)
    \/ PlanNoUsers
    \/ DispatchStart(1, DefaultLimit)
    \/ DispatchStep(1)
    \/ DispatchMarkFailedOuter(1)

SpecFaults == Init /\ [][NextFaults]_vars

\* Two dispatch_due_tasks invocations that may overlap (the every-minute job and
\* a manual trigger), beside the planner.
NextConc ==
    \/ Tick(ConcInstants)
    \/ PlanStep(MaxTasks)
    \/ PlanNoUsers
    \/ \E d \in Dispatchers : DispatchStart(d, DefaultLimit)
    \/ \E d \in Dispatchers : DispatchStep(d)

SpecConc == Init /\ [][NextConc]_vars

CadenceStep ==
    \/ UpdateLevelWrite
    \/ UpdateLevelLog
    \/ UpdateLevelReturn
    \/ StopUpdate
    \/ StopCancel
    \/ StopFarewell(MaxTasks)
    \/ StopLog
    \/ TrackResponseUpdate
    \/ TrackResponseCancel
    \/ TrackResponseLog
    \/ TrackResponseReturn

\* The CadenceManager's calls, one at a time, over a store that may go down
\* between any two statements.
NextCadence ==
    \/ Tick(CadenceInstants)
    \/ StoreDown
    \/ StoreUp
    \/ \E u \in Users : UpdateLevelRead(u)
    \/ \E u \in Users : \E reason \in StopReasons : StopCadence(u, reason)
    \/ \E u \in Users : TrackResponseRead(u)
    \/ CadenceStep

SpecCadence == Init /\ [][NextCadence]_vars

\* The limits dispatch_due_tasks is called with: one that a table of MaxTasks
\* rows exceeds, and the default.
Limits == {1, DefaultLimit}

\* The engine with the caller of dispatch_due_tasks choosing the limit.
NextLimit ==
    \/ Tick(EngineInstants)
    \/ PlanStep(MaxTasks)
    \/ PlanNoUsers
    \/ \E u \in Users : UserMessage(u)
    \/ \E u \in Users : RescheduleUpcoming(u)
    \/ \E limit \in Limits : DispatchStart(1, limit)
    \/ DispatchStep(1)

SpecLimit == Init /\ [][NextLimit]_vars

\* The minute before the earliest due time the planner assigns, that minute
\* (09:15) and the latest one (20:44).
DueInstants == {Clock(9, 14), Clock(9, 15), Clock(20, 44)}

\* The engine looked at when due times arrive: the planner at 06:00, the
\* message handler, which leaves a THANKS task with no due time, and the
\* dispatcher.
NextDue ==
    \/ Tick(DueInstants)
    \/ PlanStep(MaxTasks)
    \/ PlanNoUsers
    \/ \E u \in Users : UserMessage(u)
    \/ DispatchStart(1, DefaultLimit)
    \/ DispatchStep(1)

SpecDue == Init /\ [][NextDue]_vars

\* The planner and a dispatcher that keeps being invoked, with any of the
\* limits, and whose calls return: the every-minute job of the scheduler.  The
\* clock and the planner may stop; the dispatcher does not.
NextPickup ==
    \/ Tick(EngineInstants)
    \/ PlanStep(MaxTasks)
    \/ PlanNoUsers
    \/ \E limit \in Limits : DispatchStart(1, limit)
    \/ DispatchStep(1)

SpecPickup ==
    /\ Init
    /\ [][NextPickup]_vars
    /\ WF_vars(\E limit \in Limits : DispatchStart(1, limit))
    /\ WF_vars(DispatchStep(1))

\* No call of the planner, the dispatcher or the CadenceManager is in flight.
AllIdle ==
    /\ plan.pc = "idle"
    /\ cad.pc = "idle"
    /\ \A d \in Dispatchers : disp[d].pc = "idle"

\* The whole core with a store that answers, one operation at a time: the
\* planner, the message hook, one dispatcher and the CadenceManager's calls,
\* over one day.
NextEngine ==
    \/ Tick(ConcInstants)
    \/ AllIdle /\ \E u \in Users : PlanForUser(u, MaxTasks)
    \/ AllIdle /\ PlanNoUsers
    \/ AllIdle /\ \E u \in Users : UserMessage(u)
    \/ AllIdle /\ DispatchStart(1, DefaultLimit)
    \/ AllIdle /\ \E u \in Users : UpdateLevelRead(u)
    \/ AllIdle /\ \E u \in Users : \E reason \in StopReasons : StopCadence(u, reason)
    \/ AllIdle /\ \E u \in Users : TrackResponseRead(u)
    \/ PlanCreate
    \/ PlanReturn
    \/ DispatchStep(1)
    \/ CadenceStep

SpecEngine == Init /\ [][NextEngine]_vars

\* A task the dispatcher delivered at `sent_at`, the minute it was due.
SentTask(user_id, task_type, sent_at) ==
    [NewTask(user_id, task_type, sent_at) EXCEPT !.status = "sent", !.sent_at = sent_at]

\* The planning time of day 7.
PlanNow == Days(7) + Hours(6)

\* The admin_tasks rows the planner is started over: none; a PING sent today; a
\* THANKS sent today; a PING and a daily prompt sent today; a NUDGE_SUB sent
\* yesterday; a PING sent yesterday.
PlanHistories ==
    {<<>>,
     <<SentTask(1, "PING", PlanNow - Hours(5))>>,
     <<SentTask(1, "THANKS", PlanNow - Hours(5))>>,
     <<SentTask(1, "PING", PlanNow - Hours(5)),
       SentTask(1, "DAILY_MSG_PROMPT", PlanNow - Hours(4))>>,
     <<SentTask(1, "NUDGE_SUB", PlanNow - Hours(20))>>,
     <<SentTask(1, "PING", PlanNow - Hours(20))>>}

\* max_contacts_per_day: 1, 2 and the default of the planner.
PlanMaxContacts == {1, 2, 3}

\* The planner started at 06:00 of day 7 for a user in any of these conditions.
InitPlan ==
    /\ now = PlanNow
    /\ store_up = TRUE
    /\ \E sub \in BOOLEAN, daily \in BOOLEAN, seen \in {NULL, Days(3)},
          free \in {2, 5} :
          users = [u \in Users |-> [InitUser EXCEPT !.has_subscription = sub,
                                                     !.daily_sent_today = daily,
                                                     !.last_seen_at = seen,
                                                     !.free_questions_left = free]]
    /\ \E m \in PlanMaxContacts : prefs = [u \in Users |-> DefaultPrefs(m)]
    /\ tasks \in PlanHistories
    /\ attempts = [t \in DOMAIN tasks |-> 1]
    /\ disp = [d \in Dispatchers |-> IdleDisp]
    /\ plan = IdlePlan
    /\ cad = IdleCad

NextPlan == PlanStep(MaxPlanTasks)

SpecPlan == InitPlan /\ [][NextPlan]_vars

\* Two users that are not blocked.
PlanAllUserIds == {1, 2}

\* plan_all_users at 06:00 over two users, with a store that may go down and
\* come back between any two statements.
InitPlanAll ==
    /\ now = Hours(6)
    /\ store_up = TRUE
    /\ users = [u \in PlanAllUserIds |-> InitUser]
    /\ \E m \in MaxContactsChoices : prefs = [u \in PlanAllUserIds |-> DefaultPrefs(m)]
    /\ tasks = <<>>
    /\ attempts = <<>>
    /\ disp = [d \in Dispatchers |-> IdleDisp]
    /\ plan = IdlePlan
    /\ cad = IdleCad

NextPlanAll ==
    \/ StoreDown
    \/ StoreUp
    \/ PlanAllUsers
    \/ PlanAllNext(MaxPlanTasks)
    \/ PlanCreate
    \/ PlanReturn
    \/ PlanAllReturn

SpecPlanAll == InitPlanAll /\ [][NextPlanAll]_vars

\* update_cadence_level and track_crm_response over two weeks, beside the
\* planner, one call at a time and with a store that answers; stop_cadence runs
\* only as update_cadence_level invokes it.
NextLevel ==
    \/ Tick(CadenceInstants)
    \/ AllIdle /\ \E u \in Users : PlanForUser(u, MaxTasks)
    \/ PlanCreate
    \/ PlanReturn
    \/ AllIdle /\ \E u \in Users : UpdateLevelRead(u)
    \/ AllIdle /\ \E u \in Users : TrackResponseRead(u)
    \/ CadenceStep

SpecLevel == Init /\ [][NextLevel]_vars

\* 09:15 of day 0, when the first planned task is due, and 48 hours and 48
\* hours and a minute after it.
ResponseInstants == {Clock(9, 15), Days(2) + Clock(9, 15), Days(2) + Clock(9, 16)}

\* is_response_to_crm asked between the calls of an engine that plans, reacts
\* immediately and dispatches, one call at a time.
NextResponse ==
    \/ Tick(ResponseInstants)
    \/ AllIdle /\ \E u \in Users : PlanForUser(u, MaxTasks)
    \/ PlanCreate
    \/ PlanReturn
    \/ AllIdle /\ \E u \in Users : CreateImmediateReaction(u, "THANKS", MaxTasks)
    \/ AllIdle /\ DispatchStart(1, DefaultLimit)
    \/ DispatchStep(1)
    \/ AllIdle /\ \E u \in Users : IsResponseToCrm(u)
    \/ IsResponseReturn

SpecResponse == Init /\ [][NextResponse]_vars

\* The admin_tasks rows stop_cadence is called over, at 06:00 of day 0: none; a
\* pending PING of each user; a pending RECOVERY and a THANKS of user 1; a
\* pending daily prompt of user 2 beside a NUDGE_SUB sent to user 1.
StopHistories ==
    {<<>>,
     <<NewTask(1, "PING", Clock(9, 15)), NewTask(2, "PING", Clock(20, 44))>>,
     <<NewTask(1, "RECOVERY", Clock(9, 15)), NewTask(1, "THANKS", NULL)>>,
     <<NewTask(2, "DAILY_MSG_PROMPT", Clock(9, 15)),
       SentTask(1, "NUDGE_SUB", Hours(5))>>}

\* stop_cadence called for either of two users, with a store that may go down
\* and come back between any two statements.
InitStop ==
    /\ now = Hours(6)
    /\ store_up = TRUE
    /\ users = [u \in PlanAllUserIds |-> InitUser]
    /\ prefs = [u \in PlanAllUserIds |-> DefaultPrefs(2)]
    /\ tasks \in StopHistories
    /\ attempts = [t \in DOMAIN tasks |-> IF tasks[t].status = "sent" THEN 1 ELSE 0]
    /\ disp = [d \in Dispatchers |-> IdleDisp]
    /\ plan = IdlePlan
    /\ cad = IdleCad

NextStop ==
    \/ StoreDown
    \/ StoreUp
    \/ \E u \in PlanAllUserIds : \E reason \in StopReasons : StopCadence(u, reason)
    \/ StopUpdate
    \/ StopCancel
    \/ StopFarewell(MaxPlanTasks)
    \/ StopLog

SpecStop == InitStop /\ [][NextStop]_vars

\* The NUDGE_SUB rows the planner is started over at 06:00 of day 7: none; one
\* sent 48 hours ago; one sent a minute less than 48 hours ago; two sent 3 and
\* 5 days ago; two sent 3 days and exactly 7 days ago.
NudgeHistories ==
    {<<>>,
     <<SentTask(1, "NUDGE_SUB", PlanNow - Hours(48))>>,
     <<SentTask(1, "NUDGE_SUB", PlanNow - Hours(48) + 1)>>,
     <<SentTask(1, "NUDGE_SUB", PlanNow - Days(5)),
       SentTask(1, "NUDGE_SUB", PlanNow - Days(3))>>,
     <<SentTask(1, "NUDGE_SUB", PlanNow - Days(7)),
       SentTask(1, "NUDGE_SUB", PlanNow - Days(3))>>}

\* The planner started at 06:00 of day 7 for a user with or without a
\* subscription and any of these nudge histories.
InitNudge ==
    /\ now = PlanNow
    /\ store_up = TRUE
    /\ \E sub \in BOOLEAN, daily \in BOOLEAN :
          users = [u \in Users |-> [InitUser EXCEPT !.has_subscription = sub,
                                                     !.daily_sent_today = daily]]
    /\ \E m \in MaxContactsChoices : prefs = [u \in Users |-> DefaultPrefs(m)]
    /\ tasks \in NudgeHistories
    /\ attempts = [t \in DOMAIN tasks |-> 1]
    /\ disp = [d \in Dispatchers |-> IdleDisp]
    /\ plan = IdlePlan
    /\ cad = IdleCad

SpecNudge == InitNudge /\ [][NextPlan]_vars

\* quiet_start and quiet_end of user_prefs: the defaults (22:00 to 08:00), a
\* night that ends at 10:00, and a pause after noon.
QuietChoices == {<<Clock(22, 0), Clock(8, 0)>>, <<Clock(22, 0), Clock(10, 0)>>,
                 <<Clock(13, 0), Clock(15, 0)>>}

\* prefers_windows of contact_cadence: the defaults, and windows that begin
\* where the default quiet hours end and end where they begin.
WindowChoices == {DefaultWindows, <<<<8, 12>>, <<12, 17>>, <<17, 22>>>>}

\* The planner at 06:00 of day 0 for a user with any of these preferences.
InitDueTime ==
    /\ now = Hours(6)
    /\ store_up = TRUE
    /\ users = [u \in Users |-> InitUser]
    /\ \E q \in QuietChoices, w \in WindowChoices, m \in MaxContactsChoices :
          prefs = [u \in Users |-> [DefaultPrefs(m) EXCEPT !.quiet_start = q[1],
                                                            !.quiet_end = q[2],
                                                            !.prefers_windows = w]]
    /\ tasks = <<>>
    /\ attempts = <<>>
    /\ disp = [d \in Dispatchers |-> IdleDisp]
    /\ plan = IdlePlan
    /\ cad = IdleCad

NextDueTime ==
    \/ \E u \in Users : PlanForUser(u, MaxTasks)
    \/ PlanCreateWith(EdgeDraws(plan.user))
    \/ PlanReturn

SpecDueTime == InitDueTime /\ [][NextDueTime]_vars

\* prefers_windows with one, two, three and four named windows.
WindowCounts == {<<<<9, 12>>>>,
                 <<<<9, 12>>, <<12, 17>>>>,
                 DefaultWindows,
                 <<<<9, 12>>, <<12, 15>>, <<15, 18>>, <<18, 21>>>>}

\* The planner at 06:00 of day 0 for a user with any of these sets of windows.
InitWindows ==
    /\ now = Hours(6)
    /\ store_up = TRUE
    /\ users = [u \in Users |-> InitUser]
    /\ \E w \in WindowCounts, m \in MaxContactsChoices :
          prefs = [u \in Users |-> [DefaultPrefs(m) EXCEPT !.prefers_windows = w]]
    /\ tasks = <<>>
    /\ attempts = <<>>
    /\ disp = [d \in Dispatchers |-> IdleDisp]
    /\ plan = IdlePlan
    /\ cad = IdleCad

SpecWindows == InitWindows /\ [][NextDueTime]_vars

\* postpone_on_reply of contact_cadence in hours: unset, and delays shorter
\* than, equal to and longer than the default of 24.
PostponeChoices == {NULL, 1, 12, 24, 72}

\* hours_ahead of reschedule_upcoming_tasks: the default and a shorter one.
Horizons == {12, 48}

InitPostpone ==
    /\ now = Hours(6)
    /\ store_up = TRUE
    /\ users = [u \in Users |-> InitUser]
    /\ \E h \in PostponeChoices, m \in MaxContactsChoices :
          prefs = [u \in Users |-> [DefaultPrefs(m) EXCEPT !.postpone_on_reply = h]]
    /\ tasks = <<>>
    /\ attempts = <<>>
    /\ disp = [d \in Dispatchers |-> IdleDisp]
    /\ plan = IdlePlan
    /\ cad = IdleCad

\* The planner and the reschedule hook, one call at a time.
NextPostpone ==
    \/ Tick(EngineInstants)
    \/ PlanStep(MaxTasks)
    \/ \E u \in Users, h \in Horizons : plan.pc = "idle" /\ RescheduleWithin(u, h)

SpecPostpone == InitPostpone /\ [][NextPostpone]_vars

\* stop_cadence beside a dispatch cycle: either may run between any two
\* statements of the other, after the planner has filled the table.
NextCancelRace ==
    \/ Tick(ConcInstants)
    \/ cad.pc = "idle" /\ PlanStep(MaxTasks)
    \/ DispatchStart(1, DefaultLimit)
    \/ DispatchStep(1)
    \/ \E u \in Users : \E reason \in StopReasons :
          plan.pc = "idle" /\ StopCadence(u, reason)
    \/ StopUpdate
    \/ StopCancel
    \/ StopFarewell(MaxTasks)
    \/ StopLog

SpecCancelRace == Init /\ [][NextCancelRace]_vars

\* 06:00 and 18:00 of day 1, after the start at 06:00 of day 0.
DailyInstants == {Days(1) + Hours(6), Days(1) + Hours(18)}

\* Daily planner runs, the reschedule hook and dispatch cycles, one call at a
\* time.  The planner runs while the table holds as many rows as days have
\* passed, so at most one run a day creates tasks.
NextDaily ==
    \/ AllIdle /\ Tick(DailyInstants)
    \/ \E u \in Users :
          AllIdle /\ Len(tasks) = DateOf(now) /\ PlanForUser(u, MaxTasks)
    \/ PlanCreate
    \/ PlanReturn
    \/ \E u \in Users : AllIdle /\ RescheduleUpcoming(u)
    \/ AllIdle /\ DispatchStart(1, DefaultLimit)
    \/ DispatchStep(1)

SpecDaily == Init /\ [][NextDaily]_vars

\* ------------------------------------------------------------------ claims
\* C1: once a task is sent, failed or cancelled, no step of the engine changes
\* its status or its due_at again, and every change of status leads from
\* scheduled/due into a terminal status.
C1_TerminalIsFinal ==
    [][\A t \in DOMAIN tasks :
          /\ tasks[t].status \in TerminalStatuses
                => /\ tasks'[t].status = tasks[t].status
                   /\ tasks'[t].due_at = tasks[t].due_at
          /\ tasks'[t].status # tasks[t].status
                => /\ tasks[t].status \in PendingStatuses
                   /\ tasks'[t].status \in TerminalStatuses]_vars

\* C2: with overlapping dispatch_due_tasks invocations beside the planner, every
\* task is handed to bot.send_message by at most one invocation.  An invocation
\* holds a task once in its batch, so a task sent twice was sent by two.
C2_SentByOneInvocation ==
    \A t \in DOMAIN attempts : attempts[t] <= 1

\* The budget-counted contacts a user received on a calendar day.
ContactsOn(user_id, day) ==
    {t \in TaskIds :
        /\ tasks[t].user_id = user_id
        /\ tasks[t].status \in SentStatuses
        /\ tasks[t].type \notin UncountedTypes
        /\ tasks[t].sent_at # NULL
        /\ DateOf(tasks[t].sent_at) = day}

\* C3: over any interleaving of planner runs, reschedule calls and dispatch
\* cycles, the budget-counted contacts delivered to a user on one calendar day
\* never exceed the user's max_contacts_per_day.
C3_BudgetKept ==
    \A u \in Users : \A t \in TaskIds :
        tasks[t].sent_at # NULL
            => Cardinality(ContactsOn(u, DateOf(tasks[t].sent_at)))
                   <= prefs[u].max_contacts_per_day

\* C4: in every state, between the writes of update_cadence_level and of
\* stop_cadence and after a failed write as well, a user at cadence level 3 has
\* a stopped reason.
C4_StoppedHasReason ==
    \A u \in Users :
        users[u].crm_cadence_level = 3 => users[u].crm_stopped_reason # "null"

\* The user's FAREWELL tasks that wait to be sent.
ScheduledFarewells(tbl, user_id) ==
    {t \in DOMAIN tbl : /\ tbl[t].user_id = user_id
                        /\ tbl[t].type = "FAREWELL"
                        /\ tbl[t].status \in PendingStatuses}

\* C5: stop_cadence called for a user that an earlier stop_cadence left with one
\* scheduled farewell (and nothing dispatched since) ends as the first call did:
\* level 3, the reason of the call, exactly one scheduled farewell.
C5_StopCadenceIdempotent ==
    [][(/\ cad.pc = "sc_farewell"
        /\ cad'.pc = "sc_log"
        /\ Cardinality(ScheduledFarewells(tasks, cad.user)) = 1)
          => /\ users'[cad.user].crm_cadence_level = 3
             /\ users'[cad.user].crm_stopped_reason = cad.reason
             /\ Cardinality(ScheduledFarewells(tasks', cad.user)) = 1]_vars

\* A task reschedule_upcoming_tasks must leave alone: due already, or terminal.
Settled(t) ==
    \/ tasks[t].due_at # NULL /\ tasks[t].due_at <= now
    \/ tasks[t].status \in TerminalStatuses

C7_PlannerBudget ==
    /\ Cardinality(plan.new_ids)
          <= Min(plan.remaining_slots, Cardinality(Range(plan.candidates)))
    /\ \A a, b \in plan.new_ids : a # b => tasks[a].type # tasks[b].type
    /\ plan.remaining_slots = 0 => plan.new_ids = {}

\* An invocation that filled its N >= 2 slots out of more than N candidates.
C7_Witness ==
    /\ plan.pc = "return"
    /\ plan.remaining_slots >= 2
    /\ Cardinality(plan.new_ids) = plan.remaining_slots
    /\ Cardinality(Range(plan.candidates)) > plan.remaining_slots

\* C8: a delivery error is handled as a block exactly when its text has one of
\* the keywords.  With a keyword the handler goes to set_blocked, and when it has
\* recorded the outcome the user is blocked with a timestamp, the task is failed
\* with result_code "blocked", and the blocked counter, not the failed one, has
\* grown by one.  Without a keyword the task is failed with the generic code, the
\* failed counter has grown by one, and the users table is as it was.  Nothing
\* else sets the blocked flag or its timestamp.
C8_FailureClassified ==
    [][\A d \in Dispatchers :
          /\ (disp[d].pc = "send" /\ disp'[d].send_error # "none")
                => (disp'[d].pc = "set_blocked"
                       <=> disp'[d].send_error = "blocked_keyword")
          /\ (/\ disp[d].pc = "mark_failed"
              /\ disp'[d].stats # disp[d].stats
              /\ disp[d].send_error = "blocked_keyword")
                => /\ users'[tasks[CurTask(d)].user_id].is_blocked
                   /\ users'[tasks[CurTask(d)].user_id].blocked_at # NULL
                   /\ tasks'[CurTask(d)].status = "failed"
                   /\ tasks'[CurTask(d)].result_code = "blocked"
                   /\ disp'[d].stats.blocked = disp[d].stats.blocked + 1
                   /\ disp'[d].stats.failed = disp[d].stats.failed
          /\ (/\ disp[d].pc = "mark_failed"
              /\ disp'[d].stats # disp[d].stats
              /\ disp[d].send_error = "other")
                => /\ tasks'[CurTask(d)].status = "failed"
                   /\ tasks'[CurTask(d)].result_code = "send_error"
                   /\ disp'[d].stats.failed = disp[d].stats.failed + 1
                   /\ disp'[d].stats.blocked = disp[d].stats.blocked
          /\ (disp[d].pc # "idle" /\ disp[d].send_error = "other")
                => users' = users
          /\ users' # users
                => \E e \in Dispatchers : /\ disp[e].pc = "set_blocked"
                                          /\ disp[e].send_error = "blocked_keyword"]_vars

\* One batch in which a delivery failed without a keyword and another with one:
\* both outcomes recorded, the user blocked.
C8_Witness ==
    \E d \in Dispatchers : \E a, b \in TaskIds :
        /\ disp[d].stats.failed = 1
        /\ disp[d].stats.blocked = 1
        /\ tasks[a].result_code = "send_error"
        /\ tasks[b].result_code = "blocked"
        /\ users[tasks[b].user_id].is_blocked
        /\ users[tasks[b].user_id].blocked_at # NULL

\* C9: when a daily-message task was delivered and marked sent and
\* start_session then fails, the task stays sent and is not counted as failed.
C9_SessionBestEffort ==
    [][\A d \in Dispatchers :
          (/\ disp[d].pc \in {"start_session", "mark_failed", "mark_failed_outer"}
           /\ disp[d].send_error = "none"
           /\ tasks[CurTask(d)].status = "sent")
             => /\ tasks'[CurTask(d)].status = "sent"
                /\ disp'[d].stats.failed = disp[d].stats.failed]_vars

\* C10: dispatch_due_tasks comes to its return only when it has gone through
\* every task of the batch it fetched, whatever failed on the way.
C10_BatchProcessed ==
    \A d \in Dispatchers :
        disp[d].pc = "return" => disp[d].i = Len(disp[d].batch)

C12_MessageTracksResponse ==
    [][\A u \in Users :
          (/\ Len(tasks') = Len(tasks) + 1
           /\ tasks'[Len(tasks')].type = "THANKS"
           /\ tasks'[Len(tasks')].user_id = u
           /\ is_response_to_crm(u))
             => /\ users'[u].crm_cadence_level = 1
                /\ users'[u].last_crm_response_at = now
                /\ \A t \in TaskIds :
                      RescheduleMatches(t, u, {"PING", "NUDGE_SUB"}, 48)
                         => tasks'[t].due_at = now + Hours(24)]_vars

\* The level the whole days since the last response stand for: under 2 days 1,
\* from 2 days on 2, from 14 days on 3, and 1 without any response.
LevelOfRecency(last_response) ==
    IF last_response = NULL THEN 1
    ELSE IF now - last_response >= Days(14) THEN 3
    ELSE IF now - last_response >= Days(2) THEN 2
    ELSE 1

\* C13: update_cadence_level computes the level of the recency, stores it when
\* it differs from the stored one, and returns with the stored level equal to it.
C13_LevelByDays ==
    [][/\ (cad.pc = "idle" /\ cad'.pc \in {"ul_write", "ul_return"})
             => cad'.new_level = LevelOfRecency(users[cad'.user].last_crm_response_at)
       /\ (cad.pc = "ul_write" /\ users' # users)
             => users'[cad.user].crm_cadence_level = cad.new_level
       /\ (cad.pc # "ul_return" /\ cad'.pc = "ul_return")
             => users'[cad'.user].crm_cadence_level = cad'.new_level]_vars

\* update_cadence_level has stored level 2 exactly two days after the response.
C13_Witness ==
    /\ cad.pc = "ul_return"
    /\ cad.old_level = 1
    /\ cad.new_level = 2
    /\ users[cad.user].crm_cadence_level = 2
    /\ now - users[cad.user].last_crm_response_at = Days(2)

\* C14: when track_crm_response comes to its return, whatever calls of
\* stop_cadence and update_cadence_level came before, the user has no FAREWELL
\* task in status scheduled/due.
C14_NoFarewellAfterResponse ==
    [][(cad.pc # "tr_return" /\ cad'.pc = "tr_return")
          => ScheduledFarewells(tasks', cad'.user) = {}]_vars

\* C15: the UPDATE of track_crm_response leaves the user at level 1 with no
\* stopped reason and last_crm_response_at the time of the statement, from any
\* level before, and the call returns with the row so.
C15_ResponseRestores ==
    [][/\ (cad.pc = "tr_update" /\ cad'.pc \in {"tr_cancel", "tr_return"})
             => /\ users'[cad.user].crm_cadence_level = 1
                /\ users'[cad.user].crm_stopped_reason = "null"
                /\ users'[cad.user].last_crm_response_at = now
       /\ (cad.pc # "tr_return" /\ cad'.pc = "tr_return")
             => /\ users'[cad'.user].crm_cadence_level = 1
                /\ users'[cad'.user].crm_stopped_reason = "null"
                /\ users'[cad'.user].last_crm_response_at # NULL
                /\ users'[cad'.user].last_crm_response_at <= now']_vars

\* track_crm_response has returned for a user that was stopped with a reason.
C15_Witness ==
    /\ cad.pc = "tr_return"
    /\ cad.old_level = 3
    /\ users[cad.user].crm_cadence_level = 1
    /\ users[cad.user].crm_stopped_reason = "null"
    /\ users[cad.user].last_crm_response_at = now

\* C16: track_crm_response returns having emitted 'cadence_level_restored'
\* exactly when the level before the call was above 1.
C16_RestoredEventIffAbove1 ==
    cad.pc = "tr_return"
        => (cad.event = "cadence_level_restored" <=> cad.old_level > 1)

\* A call on a user at level 1 has returned with no event emitted.
C16_Witness ==
    /\ cad.pc = "tr_return"
    /\ cad.old_level = 1
    /\ cad.event = "none"
    /\ users[cad.user].last_crm_response_at = now

\* C18: with time only advancing, no call of update_cadence_level or
\* stop_cadence lowers a user's cadence level; only the UPDATE of
\* track_crm_response does.
C18_LevelNeverDecreases ==
    [][\A u \in Users :
          users'[u].crm_cadence_level < users[u].crm_cadence_level
             => cad.pc = "tr_update"]_vars

\* C17 as stated: a task becomes cancelled only in the cancelling UPDATE of
\* stop_cadence.
C17_CancelledOnlyByStop ==
    [][\A t \in DOMAIN tasks :
          (tasks[t].status # "cancelled" /\ tasks'[t].status = "cancelled")
             => cad.pc = "sc_cancel"]_vars

\* C17 amended: a task becomes cancelled only in the cancelling UPDATE of
\* stop_cadence, as a pending task of a proactive type of the stopped user, or
\* in the one of track_crm_response, as a pending FAREWELL of the responding
\* user whose level before the call was above 1; the dispatcher, the planner,
\* the message hook and update_cadence_level short of level 3 cancel nothing.
C17_CancelledOnlyByCadence ==
    [][\A t \in DOMAIN tasks :
          (tasks[t].status # "cancelled" /\ tasks'[t].status = "cancelled")
             => /\ tasks[t].status \in PendingStatuses
                /\ tasks[t].user_id = cad.user
                /\ \/ cad.pc = "sc_cancel" /\ tasks[t].type \in ProactiveTypes
                   \/ /\ cad.pc = "tr_cancel"
                      /\ tasks[t].type = "FAREWELL"
                      /\ cad.old_level > 1]_vars

\* stop_cadence has cancelled a planned task and track_crm_response the farewell.
C17_Witness ==
    \E a, b \in TaskIds :
        /\ tasks[a].type \in ProactiveTypes
        /\ tasks[a].status = "cancelled"
        /\ tasks[b].type = "FAREWELL"
        /\ tasks[b].status = "cancelled"

\* C19: a planning cycle never starts plan_for_user for a user whose blocked
\* flag is set, and a task of a planned type is created only by the cycle in
\* flight, for its user: a cycle that begins after the dispatcher has blocked
\* the user creates no task for that user.
C19_BlockedUserSkipped ==
    [][/\ (plan.pc = "idle" /\ plan'.pc # "idle")
             => \A u \in Users : users[u].is_blocked => plan'.user # u
       /\ (/\ Len(tasks') > Len(tasks)
           /\ tasks'[Len(tasks')].type \in ProactiveTypes)
             => /\ plan.pc = "create"
                /\ tasks'[Len(tasks')].user_id = plan.user]_vars

\* A planning cycle has run over a blocked user and planned nothing, with room
\* in the table.
C19_Witness ==
    /\ plan.pc = "return"
    /\ plan.user = 0
    /\ plan.tasks_created = 0
    /\ Len(tasks) < MaxTasks
    /\ \E u \in Users : users[u].is_blocked /\ users[u].blocked_at # NULL

\* C20: the batch one dispatch_due_tasks(limit) invocation fetches is in
\* non-decreasing due_at order and holds min(limit, number of due tasks) rows;
\* a due task left out of it has a due_at no earlier than that of every task
\* in the batch; and the invocation attempts the rows of that batch one after
\* another in the fetched order.
C20_BatchInDueOrder ==
    [][\A d \in Dispatchers :
          /\ (disp[d].pc = "idle" /\ disp'[d].pc # "idle" /\ store_up)
                => LET b == disp'[d].batch
                       due == {t \in TaskIds : IsDue(t)}
                   IN /\ Range(b) \subseteq due
                      /\ Len(b) = Min(disp'[d].limit, Cardinality(due))
                      /\ Cardinality(Range(b)) = Len(b)
                      /\ \A i, j \in 1..Len(b) :
                            i < j => tasks[b[i]].due_at <= tasks[b[j]].due_at
                      /\ \A t \in due \ Range(b) : \A i \in 1..Len(b) :
                            tasks[b[i]].due_at <= tasks[t].due_at
          /\ (disp[d].pc # "idle" /\ disp'[d].pc # "idle")
                => /\ disp'[d].batch = disp[d].batch
                   /\ disp'[d].i \in {disp[d].i, disp[d].i + 1}]_vars

\* An invocation with limit 1 is attempting the earlier of two due tasks, the
\* later one left for the next invocation.
C20_Witness ==
    \E d \in Dispatchers : \E t \in TaskIds :
        /\ disp[d].pc = "send"
        /\ disp[d].limit = 1
        /\ Len(disp[d].batch) = 1
        /\ t # disp[d].batch[1]
        /\ IsDue(t)
        /\ tasks[t].due_at > tasks[disp[d].batch[1]].due_at

\* An invocation with the default limit has attempted two tasks of different
\* due_at, the earlier one first.
C20_WitnessOrder ==
    \E d \in Dispatchers :
        /\ disp[d].pc = "return"
        /\ Len(disp[d].batch) = 2
        /\ tasks[disp[d].batch[1]].due_at < tasks[disp[d].batch[2]].due_at

\* C21: the tasks a dispatch cycle fetches (with a limit no smaller than the
\* table) are exactly those with status scheduled/due, a due_at not later than
\* now and a user that is not blocked, a due_at equal to now included; and
\* bot.send_message is never called for a task whose due_at is null or later
\* than now.
C21_EligibleExactly ==
    [][/\ \A d \in Dispatchers :
             (disp[d].pc = "idle" /\ disp'[d].pc # "idle")
                => Range(disp'[d].batch) =
                      {t \in TaskIds : /\ tasks[t].status \in {"scheduled", "due"}
                                        /\ tasks[t].due_at # NULL
                                        /\ tasks[t].due_at <= now
                                        /\ ~users[tasks[t].user_id].is_blocked}
       /\ \A t \in DOMAIN attempts :
             attempts'[t] > attempts[t]
                => tasks[t].due_at # NULL /\ tasks[t].due_at <= now]_vars

\* A task whose due_at is the very minute of the dispatch is being sent, while
\* a task with no due_at and one due later wait.
C21_Witness ==
    \E d \in Dispatchers :
        /\ disp[d].pc = "send"
        /\ tasks[disp[d].batch[disp[d].i]].due_at = now
        /\ \E t \in TaskIds : tasks[t].status = "scheduled"
                               /\ (tasks[t].due_at = NULL \/ tasks[t].due_at > now)

\* C22: _get_task_message never leaves _process_task by an exception: whatever
\* the generator does the task is handed to bot.send_message, with the fallback
\* text when the generator raised, and its status is untouched until then; the
\* status the task then takes is sent exactly when the delivery succeeded and
\* failed otherwise, whichever text was sent.
C22_GenerationNeverFails ==
    [][\A d \in Dispatchers :
          /\ disp[d].pc = "message" /\ disp'[d] # disp[d]
                => /\ disp'[d].pc = "send"
                   /\ disp'[d].text \in {"generated", "fallback"}
                   /\ tasks' = tasks
          /\ disp[d].pc = "send" /\ disp'[d] # disp[d]
                => /\ attempts'[CurTask(d)] = attempts[CurTask(d)] + 1
                   /\ disp'[d].text = disp[d].text
                   /\ tasks' = tasks
          /\ (/\ disp[d].pc \in {"mark_sent", "set_blocked", "mark_failed"}
              /\ tasks'[CurTask(d)].status # tasks[CurTask(d)].status)
                => /\ tasks'[CurTask(d)].status =
                         (IF disp[d].send_error = "none" THEN "sent" ELSE "failed")
                   /\ attempts[CurTask(d)] >= 1]_vars

\* The generator failed for a task that was delivered with the fallback text and
\* is being marked sent.
C22_Witness ==
    \E d \in Dispatchers :
        /\ disp[d].pc = "mark_sent"
        /\ disp[d].text = "fallback"
        /\ tasks[disp[d].batch[disp[d].i]].status = "scheduled"
        /\ attempts[disp[d].batch[disp[d].i]] = 1

\* C23: inside plan_all_users a statement of plan_for_user that raises leaves
\* plan_for_user with 0 tasks created and the list of users as it was; every
\* return of plan_for_user adds exactly its result to total_tasks and moves
\* the loop to the next user of the list, whose plan_for_user is then called;
\* and the loop ends only when the list is exhausted.
C23_PlannerIsolation ==
    [][/\ (/\ plan.in_all /\ plan.pc \in {"loop", "create"} /\ plan.queue # <<>>
           /\ ~store_up /\ plan' # plan)
             => /\ plan'.pc = "return"
                /\ plan'.tasks_created = 0
                /\ plan'.queue = plan.queue
                /\ plan'.stats = plan.stats
       /\ (plan.in_all /\ plan.pc = "return" /\ plan' # plan)
             => /\ plan'.pc = "loop"
                /\ plan'.queue = Tail(plan.queue)
                /\ plan'.stats.total_tasks = plan.stats.total_tasks + plan.tasks_created
       /\ (plan.pc = "loop" /\ plan.queue # <<>> /\ plan' # plan)
             => /\ plan'.pc \in {"create", "return"}
                /\ plan'.user = Head(plan.queue)
       /\ (plan.pc # "idle" /\ plan.pc # "all_return" /\ plan'.pc = "all_return")
             => plan.pc = "loop" /\ plan.queue = <<>>]_vars

\* plan_all_users returns after both users were planned: the first created one
\* task and failed at its second, contributing 0; the second created two.
C23_Witness ==
    /\ plan.pc = "all_return"
    /\ plan.stats.total_users = 2
    /\ plan.stats.total_tasks = 2
    /\ plan.stats.users_with_tasks = 1
    /\ Len(tasks) = 3
    /\ tasks[1].user_id # tasks[2].user_id
    /\ tasks[2].user_id = tasks[3].user_id

\* A task that waits, is due and whose user is not blocked.
Waiting(t) ==
    /\ t \in TaskIds
    /\ tasks[t].status = "scheduled"
    /\ tasks[t].due_at # NULL
    /\ tasks[t].due_at <= now
    /\ ~users[tasks[t].user_id].is_blocked

C25_StopCadencePostState ==
    [][/\ (cad.pc = "sc_log" /\ cad'.pc = "idle")
             => /\ users[cad.user].crm_cadence_level = 3
                /\ users[cad.user].crm_stopped_reason = cad.reason
                /\ \A t \in TaskIds :
                      (tasks[t].user_id = cad.user /\ tasks[t].type \in ProactiveTypes)
                         => tasks[t].status \notin {"scheduled", "due"}
                /\ \E t \in TaskIds : /\ tasks[t].user_id = cad.user
                                       /\ tasks[t].type = "FAREWELL"
                                       /\ tasks[t].status = "scheduled"
                                       /\ tasks[t].due_at = now + Hours(1)
       /\ \A t \in DOMAIN tasks : tasks[t].user_id # cad.user => tasks'[t] = tasks[t]
       /\ \A t \in DOMAIN tasks' \ DOMAIN tasks : tasks'[t].user_id = cad.user
       /\ \A u \in DOMAIN users : u # cad.user => users'[u] = users[u]]_vars

\* stop_cadence has returned for user 1: its PING is cancelled, its FAREWELL
\* waits, and the PING of user 2 is still scheduled.
C25_Witness ==
    /\ cad.pc = "idle"
    /\ Len(tasks) = 3
    /\ tasks[1].user_id = 1 /\ tasks[1].type = "PING" /\ tasks[1].status = "cancelled"
    /\ tasks[2].user_id = 2 /\ tasks[2].type = "PING" /\ tasks[2].status = "scheduled"
    /\ tasks[3].user_id = 1 /\ tasks[3].type = "FAREWELL"
    /\ users[1].crm_cadence_level = 3
    /\ users[2].crm_cadence_level = 1

\* The user's tasks of the proactive types that wait to be sent.
PendingProactive(user_id) ==
    {t \in TaskIds : /\ tasks[t].user_id = user_id
                      /\ tasks[t].type \in ProactiveTypes
                      /\ tasks[t].status \in PendingStatuses}

\* The FAREWELL tasks ever created for the user.
Farewells(user_id) ==
    {t \in TaskIds : tasks[t].user_id = user_id /\ tasks[t].type = "FAREWELL"}

C27_ResponseWithin48h ==
    [][(cad.pc = "idle" /\ cad'.pc = "irc_return")
          => (cad'.answer = "true"
                <=> \E t \in TaskIds :
                       /\ tasks[t].user_id = cad'.user
                       /\ tasks[t].status = "sent"
                       /\ tasks[t].type \in {"PING", "NUDGE_SUB", "DAILY_MSG_PROMPT",
                                             "RECOVERY", "LIMIT_INFO"}
                       /\ now - tasks[t].sent_at <= 48 * 60)]_vars

\* is_response_to_crm has answered true for a user whose only sent proactive
\* task was sent 48 hours ago to the minute.
C27_Witness ==
    /\ cad.pc = "irc_return"
    /\ cad.answer = "true"
    /\ \E t \in TaskIds : /\ tasks[t].status = "sent"
                           /\ tasks[t].type \in ProactiveTypes
                           /\ now - tasks[t].sent_at = Hours(48)
    /\ \A t \in TaskIds : (tasks[t].status = "sent" /\ tasks[t].type \in ProactiveTypes)
                             => now - tasks[t].sent_at >= Hours(48)

\* is_response_to_crm has answered false although a THANKS task was sent within
\* 48 hours: the latest sent proactive task is older.
C27_WitnessOtherType ==
    /\ cad.pc = "irc_return"
    /\ cad.answer = "false"
    /\ \E t \in TaskIds : /\ tasks[t].status = "sent"
                           /\ tasks[t].type = "THANKS"
                           /\ now - tasks[t].sent_at <= Hours(48)
    /\ \E t \in TaskIds : tasks[t].status = "sent" /\ tasks[t].type \in ProactiveTypes

\* The user's NUDGE_SUB tasks that were sent.
SentNudges(user_id) ==
    {t \in TaskIds : /\ tasks[t].user_id = user_id
                      /\ tasks[t].type = "NUDGE_SUB"
                      /\ tasks[t].status \in {"sent", "replied"}
                      /\ tasks[t].sent_at # NULL}

\* C28: when plan_for_user has collected its candidates, NUDGE_SUB is among them
\* exactly when the user has no active subscription, every sent nudge is at
\* least 48 hours old (none at all included) and fewer than 2 nudges were sent
\* later than 7 days ago.
C28_NudgeNominated ==
    [][(plan.pc = "idle" /\ plan'.pc # "idle" /\ plan'.remaining_slots > 0)
          => ("NUDGE_SUB" \in Range(plan'.candidates)
                <=> /\ ~users[plan'.user].has_subscription
                    /\ \A t \in SentNudges(plan'.user) :
                          now - tasks[t].sent_at >= 48 * 60
                    /\ Cardinality({t \in SentNudges(plan'.user) :
                          tasks[t].sent_at > now - 7 * 24 * 60}) < 2)]_vars

\* NUDGE_SUB is a candidate for a user whose last nudge was sent 48 hours ago
\* to the minute.
C28_Witness ==
    /\ plan.pc \in {"create", "return"}
    /\ plan.remaining_slots > 0
    /\ "NUDGE_SUB" \in Range(plan.candidates)
    /\ \E t \in SentNudges(plan.user) : now - tasks[t].sent_at = Hours(48)

\* NUDGE_SUB is no candidate for a user without a subscription whose two
\* nudges of this week are both older than 48 hours.
C28_WitnessWeeklyLimit ==
    /\ plan.pc \in {"create", "return"}
    /\ plan.remaining_slots > 0
    /\ ~users[plan.user].has_subscription
    /\ "NUDGE_SUB" \notin Range(plan.candidates)
    /\ Cardinality(SentNudges(plan.user)) = 2
    /\ \A t \in SentNudges(plan.user) : now - tasks[t].sent_at > Hours(48)

\* C29: every task created for an immediate reaction (a THANKS or REACT task, by
\* create_immediate_reaction or by the message handler) has a due_at that is
\* not null and not later than the time of its creation, so that the WHERE
\* clause of get_due_tasks holds for it at once.
C29_ImmediateReactionDue ==
    [][\A t \in DOMAIN tasks' \ DOMAIN tasks :
          tasks'[t].type \in ReactionTypes
             => /\ tasks'[t].due_at # NULL
                /\ tasks'[t].due_at <= now]_vars

\* The time of day of an instant.
TimeOfDay(t) == t % (24 * 60)

\* The time of day lies in the user's quiet hours, which run over midnight when
\* quiet_start is later than quiet_end.
InQuietHours(user_id, tod) ==
    IF prefs[user_id].quiet_start > prefs[user_id].quiet_end
    THEN tod >= prefs[user_id].quiet_start \/ tod <= prefs[user_id].quiet_end
    ELSE prefs[user_id].quiet_start <= tod /\ tod <= prefs[user_id].quiet_end

\* C30: whatever the windows and the quiet hours of the user, every task the
\* planner creates has a due_at whose time of day is outside the quiet hours.
C30_DueOutsideQuietHours ==
    [][\A t \in DOMAIN tasks' \ DOMAIN tasks :
          ~InQuietHours(tasks'[t].user_id, TimeOfDay(tasks'[t].due_at))]_vars

\* With the default windows and the default quiet hours every task the planner
\* creates has a due_at outside the quiet hours.
C30_DefaultsOutsideQuietHours ==
    [][\A t \in DOMAIN tasks' \ DOMAIN tasks :
          (/\ prefs[tasks'[t].user_id].prefers_windows = DefaultWindows
           /\ prefs[tasks'[t].user_id].quiet_start = Clock(22, 0)
           /\ prefs[tasks'[t].user_id].quiet_end = Clock(8, 0))
             => ~InQuietHours(tasks'[t].user_id, TimeOfDay(tasks'[t].due_at))]_vars

\* C31: however many windows the user has, plan_for_user ends with one task
\* created for every selected type, each due in one of the windows (or at the
\* replacement time 09:15), the jitter allowed for.
C31_OneTaskPerSelectedType ==
    [][(plan.pc \in {"create", "return"} /\ plan'.pc = "idle")
          => /\ Cardinality(plan.new_ids) = Len(plan.selected)
             /\ \A t \in plan.new_ids :
                   \E w \in Range(prefs[plan.user].prefers_windows), j \in -15..15 :
                      \/ /\ TimeOfDay(tasks[t].due_at - j) >= Clock(w[1], 0)
                         /\ TimeOfDay(tasks[t].due_at - j) < Clock(w[2], 0)
                      \/ TimeOfDay(tasks[t].due_at - j) = Clock(9, 15)]_vars

\* With three windows plan_for_user ends with one task for every selected type.
C31_ThreeWindowsPlanned ==
    [][(plan.pc \in {"create", "return"} /\ plan'.pc = "idle"
        /\ Len(prefs[plan.user].prefers_windows) = 3)
          => Cardinality(plan.new_ids) = Len(plan.selected)]_vars

\* C32: every row the reschedule hook changes keeps its status and gets a
\* due_at that is not earlier than the one it had, whatever the horizon and
\* the postpone duration.
C32_ReschedulePushesOut ==
    [][\A t \in DOMAIN tasks :
          tasks'[t] # tasks[t]
             => /\ tasks'[t].status = tasks[t].status
                /\ tasks'[t].due_at >= tasks[t].due_at]_vars

\* The hook changes nothing but due_at, and with postpone_on_reply unset or 24
\* the new due_at is not earlier than the old one.
C32_DefaultPushesOut ==
    [][\A t \in DOMAIN tasks :
          tasks'[t] # tasks[t]
             => /\ tasks'[t] = [tasks[t] EXCEPT !.due_at = tasks'[t].due_at]
                /\ prefs[tasks[t].user_id].postpone_on_reply \in {NULL, 24}
                      => tasks'[t].due_at >= tasks[t].due_at]_vars

\* C33: a task that stop_cadence has cancelled is not handed to the transport
\* afterwards and stays cancelled, also when a dispatch cycle had fetched it
\* before the cancellation.
C33_CancelledNeverDelivered ==
    [][\A t \in DOMAIN tasks :
          tasks[t].status = "cancelled"
             => /\ tasks'[t].status = "cancelled"
                /\ attempts'[t] = attempts[t]]_vars

\* A dispatch cycle that starts after the cancellation leaves the cancelled
\* task alone: no cycle fetches a cancelled task.
C33_CancelledNeverFetched ==
    [][\A d \in Dispatchers :
          (disp[d].pc = "idle" /\ disp'[d].pc # "idle")
             => \A i \in DOMAIN disp'[d].batch :
                   tasks[disp'[d].batch[i]].status # "cancelled"]_vars

\* C34: while the cadence level of a user is 3, no task of the proactive types
\* is created for that user and none is handed to the transport.
C34_StoppedNoOutreach ==
    [][/\ \A t \in DOMAIN tasks' \ DOMAIN tasks :
             tasks'[t].type \in ProactiveTypes
                => users[tasks'[t].user_id].crm_cadence_level # 3
       /\ \A t \in DOMAIN tasks :
             (attempts'[t] > attempts[t] /\ tasks[t].type \in ProactiveTypes)
                => users[tasks[t].user_id].crm_cadence_level # 3]_vars

\* C35: two NUDGE_SUB tasks sent to the same user are at least 48 hours apart,
\* and no more than 2 of a user's are sent within any span of 7 days.
C35_NudgeDeliveryLimits ==
    \A user_id \in Users :
       /\ \A t1, t2 \in SentNudges(user_id) :
             (t1 # t2 /\ tasks[t1].sent_at <= tasks[t2].sent_at)
                => tasks[t2].sent_at - tasks[t1].sent_at >= Hours(NUDGE_MIN_HOURS)
       /\ \A t1 \in SentNudges(user_id) :
             Cardinality({t2 \in SentNudges(user_id) :
                             /\ tasks[t2].sent_at >= tasks[t1].sent_at
                             /\ tasks[t2].sent_at < tasks[t1].sent_at + Days(7)})
                <= NUDGE_MAX_PER_WEEK

\* Two nudges of one user sent on the same day, the first after the reschedule
\* hook moved it to 06:00 of day 1 and the second planned on day 1.
C35_RescheduledThenPlanned ==
    \E t1, t2 \in TaskIds :
       /\ t1 # t2
       /\ t1 \in SentNudges(tasks[t1].user_id)
       /\ t2 \in SentNudges(tasks[t1].user_id)
       /\ tasks[t1].due_at = Days(1) + Hours(6)
       /\ tasks[t1].sent_at = Days(1) + Hours(6)
       /\ tasks[t2].sent_at = Days(1) + Hours(18)

\* The DAILY_MSG_PROMPT tasks of the user that are recorded as sent.
SentPrompts(tbl, user_id) ==
    {t \in DOMAIN tbl : /\ tbl[t].user_id = user_id
                        /\ tbl[t].type = "DAILY_MSG_PROMPT"
                        /\ tbl[t].status \in SentStatuses
                        /\ tbl[t].sent_at # NULL}

\* C36: a planner run that follows the delivery of a daily prompt to the user
\* on the same day does not nominate the daily prompt, and no two daily prompts
\* of a user are sent on the same calendar day.
C36_OnePromptPerDay ==
    [][/\ (/\ plan.pc = "idle"
           /\ plan'.pc # "idle"
           /\ \E t \in SentPrompts(tasks, plan'.user) :
                 DateOf(tasks[t].sent_at) = DateOf(now))
             => \A i \in DOMAIN plan'.candidates :
                   plan'.candidates[i] # "DAILY_MSG_PROMPT"
       /\ \A user_id \in Users : \A t1, t2 \in SentPrompts(tasks', user_id) :
             t1 # t2 => DateOf(tasks'[t1].sent_at) # DateOf(tasks'[t2].sent_at)]_vars

\* Two daily prompts of one user sent on the same day.
C36_TwoPromptsSameDay ==
    \E user_id \in Users : \E t1, t2 \in SentPrompts(tasks, user_id) :
       t1 # t2 /\ DateOf(tasks[t1].sent_at) = DateOf(tasks[t2].sent_at)

\* C37: in every state sent_at is set exactly on the tasks whose status is
\* sent, and result_code is set only on tasks whose status is failed; a task
\* the transport accepted (sent_at set) is never recorded as failed.
C37_ColumnsAgree ==
    \A t \in TaskIds :
       /\ tasks[t].sent_at # NULL <=> tasks[t].status = "sent"
       /\ tasks[t].result_code # "null" => tasks[t].status = "failed"

\* C38 as stated: no task is handed to the transport while the blocked flag of
\* its user is set.
C38_NoAttemptWhileBlocked ==
    [][\A t \in DOMAIN tasks :
          attempts'[t] > attempts[t] => ~users[tasks[t].user_id].is_blocked]_vars

\* C38: a dispatch cycle fetches no task of a user whose blocked flag is set,
\* so no later cycle attempts a delivery to a user that has been marked
\* blocked; a task handed to the transport while the flag is set belongs to
\* the batch in which an earlier task of the same user was refused as blocked.
C38_BlockedNotFetched ==
    [][/\ \A d \in Dispatchers :
             (disp[d].pc = "idle" /\ disp'[d].pc # "idle")
                => \A i \in DOMAIN disp'[d].batch :
                      ~users[tasks[disp'[d].batch[i]].user_id].is_blocked
       /\ \A d \in Dispatchers :
             (/\ disp[d].pc = "send"
              /\ attempts'[CurTask(d)] > attempts[CurTask(d)]
              /\ users[tasks[CurTask(d)].user_id].is_blocked)
                => \E j \in 1..(disp[d].i - 1) :
                      /\ tasks[disp[d].batch[j]].user_id = tasks[CurTask(d)].user_id
                      /\ tasks[disp[d].batch[j]].result_code = "blocked"]_vars

\* The first task of a batch was refused as blocked and the user marked; the
\* second task of the batch, of the same user, has been handed to the transport.
C38_Witness ==
    \E d \in Dispatchers :
       /\ disp[d].i = 2
       /\ disp[d].pc \in {"mark_sent", "set_blocked", "mark_failed"}
       /\ tasks[disp[d].batch[1]].result_code = "blocked"
       /\ tasks[disp[d].batch[2]].user_id = tasks[disp[d].batch[1]].user_id
       /\ users[tasks[disp[d].batch[1]].user_id].is_blocked
       /\ attempts[disp[d].batch[2]] = 1

\* A cycle that started after the user was marked blocked has fetched nothing,
\* although a task of that user is pending and was due before the block.
C38_WitnessLaterCycle ==
    \E d \in Dispatchers : \E t \in TaskIds :
       /\ disp[d].pc = "return"
       /\ disp[d].batch = <<>>
       /\ tasks[t].status \in PendingStatuses
       /\ tasks[t].due_at # NULL
       /\ users[tasks[t].user_id].is_blocked
       /\ tasks[t].due_at <= users[tasks[t].user_id].blocked_at

\* C39: every task plan_for_user creates, at whatever time of day it is called,
\* has a due_at later than the time of its creation.
C39_PlannedInFuture ==
    [][\A t \in plan'.new_ids \ plan.new_ids : tasks'[t].due_at > now]_vars

\* The tasks the planner creates at 06:00, the time of the daily job, are due
\* later than 06:00.
C39_MorningJobInFuture ==
    [][\A t \in plan'.new_ids \ plan.new_ids :
          TimeOfDay(now) = Hours(6) => tasks'[t].due_at > now]_vars

====
